---- MODULE Spec2Model ----
(***************************************************************************)
(* A model of flexget/terminal.py: the thread-local console-output         *)
(* override (capture_console / get_console_output), the console print      *)
(* function over the shared rich console, TerminalTable construction and   *)
(* rendering, and word_wrap.                                               *)
(***************************************************************************)
EXTENDS Integers, Sequences, FiniteSets, TLC

\* ------------------------------------------------------------------ bounds

\* Deepest nesting of capture_console scopes a thread enters.
MaxDepth == 2

\* ------------------------------------------------------------- value sets

Threads == {"t1", "t2"}
\* The file-like objects handed to capture_console.
Streams == {"s1", "s2"}
\* Python's None.
None == "None"
\* threading.local() has no attribute 'output' in a thread that never set it.
Absent == "Absent"
\* What rich writes to when its file is None: sys.stdout.
Default == "stdout"

VARIABLES
    local_context,  \* thread -> the thread's local_context.output (or Absent)
    frames,         \* thread -> stack of capture_console generator frames
    pc,             \* thread -> where the thread is
    rich_console,   \* the shared rich console: [file, no_color]
    lastWrite,      \* history: where the last rich_console.print wrote
    scopes,         \* history: thread -> streams of the scopes it is inside
    before,         \* history: thread -> what get_console_output() returned
                    \*   right before each of these scopes was entered
    justExited,     \* history: thread -> its last scope step was a normal exit
    everEntered,    \* history: thread -> it has entered a scope at some time
    unwound,        \* history: thread -> scopes the raised error has left
    disabled,       \* history: disable_colors() has been called
    callDisabled,   \* history: thread -> its console() call began after that
    tbl,            \* the TerminalTable under construction / built
    rendered,       \* the last __rich_console__ run: [type, segments, out]
    ww              \* the last word_wrap call: [text, max_length, result]

consoleVars == <<local_context, frames, pc, rich_console, lastWrite, scopes,
                 before, justExited, everEntered, unwound, disabled,
                 callDisabled>>
tableVars == <<tbl, rendered>>
wrapVars == <<ww>>
vars == <<consoleVars, tableVars, wrapVars>>

Last(s) == s[Len(s)]
Front(s) == SubSeq(s, 1, Len(s) - 1)

\* --------------------------------------------- the override register

get_console_output(t) ==
    IF local_context[t] = Absent THEN None ELSE local_context[t]

\* Were local_context a plain module global, every thread would see it.
SetOutputShared(t, v) == [u \in Threads |-> v]

\* An assignment to local_context.output: the calling thread's slot only.
SetOutput(t, v) == [local_context EXCEPT ![t] = v]

\* A finally clause that clears the override instead of restoring it.
restore_output_unset(t) == SetOutput(t, None)

\* The finally clause of capture_console.
restore_output(t) == SetOutput(t, Last(frames[t]).old_output)

NoUnwind == [n |-> 0, to |-> None]

capture_console_enter(t, filelike) ==
    /\ pc[t] = "body"
    /\ Len(frames[t]) < MaxDepth
    /\ frames' = [frames EXCEPT
                    ![t] = Append(@, [old_output |-> get_console_output(t)])]
    /\ local_context' = SetOutput(t, filelike)
    /\ scopes' = [scopes EXCEPT ![t] = Append(@, filelike)]
    /\ before' = [before EXCEPT ![t] = Append(@, get_console_output(t))]
    /\ justExited' = [justExited EXCEPT ![t] = FALSE]
    /\ everEntered' = [everEntered EXCEPT ![t] = TRUE]
    /\ UNCHANGED <<pc, rich_console, lastWrite, unwound, disabled,
                   callDisabled, tableVars, wrapVars>>

\* The wrapped block ends normally.
capture_console_exit(t) ==
    /\ pc[t] = "body"
    /\ frames[t] /= <<>>
    /\ local_context' = restore_output(t)
    /\ frames' = [frames EXCEPT ![t] = Front(@)]
    /\ scopes' = [scopes EXCEPT ![t] = Front(@)]
    /\ before' = [before EXCEPT ![t] = Front(@)]
    /\ justExited' = [justExited EXCEPT ![t] = TRUE]
    /\ UNCHANGED <<pc, rich_console, lastWrite, everEntered, unwound,
                   disabled, callDisabled, tableVars, wrapVars>>

\* The wrapped block raises.
BlockRaises(t) ==
    /\ pc[t] = "body"
    /\ frames[t] /= <<>>
    /\ pc' = [pc EXCEPT ![t] = "raising"]
    /\ unwound' = [unwound EXCEPT ![t] = NoUnwind]
    /\ UNCHANGED <<local_context, frames, rich_console, lastWrite, scopes, before, justExited,
                   everEntered, disabled, callDisabled, tableVars, wrapVars>>

\* Without try/finally the error leaves the scope and nothing is restored.
capture_console_unwind_no_finally(t) ==
    /\ pc[t] = "raising"
    /\ frames[t] /= <<>>
    /\ frames' = [frames EXCEPT ![t] = Front(@)]
    /\ scopes' = [scopes EXCEPT ![t] = Front(@)]
    /\ before' = [before EXCEPT ![t] = Front(@)]
    /\ justExited' = [justExited EXCEPT ![t] = FALSE]
    /\ unwound' = [unwound EXCEPT
                     ![t] = [n |-> @.n + 1, to |-> Last(before[t])]]
    /\ UNCHANGED <<local_context, pc, rich_console, lastWrite, everEntered,
                   disabled, callDisabled, tableVars, wrapVars>>

\* The error leaves one scope: its finally clause runs, the error goes on.
capture_console_unwind(t) ==
    /\ pc[t] = "raising"
    /\ frames[t] /= <<>>
    /\ local_context' = restore_output(t)
    /\ frames' = [frames EXCEPT ![t] = Front(@)]
    /\ scopes' = [scopes EXCEPT ![t] = Front(@)]
    /\ before' = [before EXCEPT ![t] = Front(@)]
    /\ justExited' = [justExited EXCEPT ![t] = FALSE]
    /\ unwound' = [unwound EXCEPT
                     ![t] = [n |-> @.n + 1, to |-> Last(before[t])]]
    /\ UNCHANGED <<pc, rich_console, lastWrite, everEntered, disabled,
                   callDisabled, tableVars, wrapVars>>

\* A caller's handler catches the error, between scopes or outside them all.
Catch(t) ==
    /\ pc[t] = "raising"
    /\ pc' = [pc EXCEPT ![t] = "body"]
    /\ unwound' = [unwound EXCEPT ![t] = NoUnwind]
    /\ UNCHANGED <<local_context, frames, rich_console, lastWrite, scopes, before, justExited,
                   everEntered, disabled, callDisabled, tableVars, wrapVars>>

\* ------------------------------------------------------ console print

\* rich.console.Console.file: the explicit file, or sys.stdout.
Dest(file) == IF file = None THEN Default ELSE file

\* Setting an attribute rich never reads leaves the colors on.
disable_colors_wrong_attribute ==
    /\ disabled' = TRUE
    /\ UNCHANGED <<local_context, frames, pc, rich_console, lastWrite, scopes,
                   before, justExited, everEntered, unwound, callDisabled,
                   tableVars, wrapVars>>

disable_colors ==
    /\ rich_console' = [rich_console EXCEPT !.no_color = TRUE]
    /\ disabled' = TRUE
    /\ UNCHANGED <<local_context, frames, pc, lastWrite, scopes, before, justExited, everEntered,
                   unwound, callDisabled, tableVars, wrapVars>>

\* Where thread t's output belongs: its innermost scope's stream, if any.
Resolved(t) == IF scopes[t] = <<>> THEN Default ELSE Last(scopes[t])

\* rich_console.file = get_console_output()
console_set(t) ==
    /\ pc[t] = "body"
    /\ rich_console' = [rich_console EXCEPT !.file = get_console_output(t)]
    /\ pc' = [pc EXCEPT ![t] = "set"]
    /\ callDisabled' = [callDisabled EXCEPT ![t] = disabled]
    /\ UNCHANGED <<local_context, frames, lastWrite, scopes, before, justExited, everEntered,
                   unwound, disabled, tableVars, wrapVars>>

\* rich_console.print(text) returns: the text went to the console's file.
console_print(t) ==
    /\ pc[t] = "set"
    /\ lastWrite' = [written |-> TRUE,
                     resolved |-> Resolved(t),
                     dest |-> Dest(rich_console.file),
                     no_color |-> rich_console.no_color,
                     afterDisable |-> callDisabled[t]]
    /\ pc' = [pc EXCEPT ![t] = "ok"]
    /\ UNCHANGED <<local_context, frames, rich_console, scopes, before, justExited, everEntered,
                   unwound, disabled, callDisabled, tableVars, wrapVars>>

\* rich_console.print(text) raises (the destination is closed, ...).
console_print_raises(t) ==
    /\ pc[t] = "set"
    /\ pc' = [pc EXCEPT ![t] = "err"]
    /\ UNCHANGED <<local_context, frames, rich_console, lastWrite, scopes, before, justExited,
                   everEntered, unwound, disabled, callDisabled, tableVars,
                   wrapVars>>

\* Without try/finally the file is reset only when print returned.
console_finally_on_success(t) ==
    /\ pc[t] \in {"ok", "err"}
    /\ rich_console' = [rich_console EXCEPT
                          !.file = IF pc[t] = "ok" THEN None ELSE @]
    /\ pc' = [pc EXCEPT ![t] = IF pc[t] = "ok" THEN "body" ELSE "raising"]
    /\ unwound' = [unwound EXCEPT ![t] = NoUnwind]
    /\ callDisabled' = [callDisabled EXCEPT ![t] = FALSE]
    /\ UNCHANGED <<local_context, frames, lastWrite, scopes, before,
                   justExited, everEntered, disabled, tableVars, wrapVars>>

\* finally: rich_console.file = None; the call returns, or its error goes on.
console_finally(t) ==
    /\ pc[t] \in {"ok", "err"}
    /\ rich_console' = [rich_console EXCEPT !.file = None]
    /\ pc' = [pc EXCEPT ![t] = IF pc[t] = "ok" THEN "body" ELSE "raising"]
    /\ unwound' = [unwound EXCEPT ![t] = NoUnwind]
    /\ callDisabled' = [callDisabled EXCEPT ![t] = FALSE]
    /\ UNCHANGED <<local_context, frames, lastWrite, scopes, before, justExited, everEntered,
                   disabled, tableVars, wrapVars>>

InCall(t) == pc[t] \in {"set", "ok", "err"}

\* ---------------------------------------------------- the specification

NoWrite == [written |-> FALSE, resolved |-> Default, dest |-> Default,
            no_color |-> FALSE, afterDisable |-> FALSE]
NoTable == [phase |-> "none"]
NoRender == [phase |-> "none"]
NoWrap == [phase |-> "none"]

Init ==
    /\ local_context = [t \in Threads |-> Absent]
    /\ frames = [t \in Threads |-> <<>>]
    /\ pc = [t \in Threads |-> "body"]
    /\ rich_console = [file |-> None, no_color |-> FALSE]
    /\ lastWrite = NoWrite
    /\ scopes = [t \in Threads |-> <<>>]
    /\ before = [t \in Threads |-> <<>>]
    /\ justExited = [t \in Threads |-> FALSE]
    /\ everEntered = [t \in Threads |-> FALSE]
    /\ unwound = [t \in Threads |-> NoUnwind]
    /\ disabled = FALSE
    /\ callDisabled = [t \in Threads |-> FALSE]
    /\ tbl = NoTable
    /\ rendered = NoRender
    /\ ww = NoWrap

Next ==
    \/ \E t \in Threads, filelike \in Streams : capture_console_enter(t, filelike)
    \/ \E t \in Threads : capture_console_exit(t)
    \/ \E t \in Threads : BlockRaises(t)
    \/ \E t \in Threads : capture_console_unwind(t)
    \/ \E t \in Threads : Catch(t)
    \/ disable_colors
    \/ \E t \in Threads : console_set(t)
    \/ \E t \in Threads : console_print(t)
    \/ \E t \in Threads : console_print_raises(t)
    \/ \E t \in Threads : console_finally(t)

Spec == Init /\ [][Next]_vars

\* ------------------------------------------------------- TerminalTable

\* Most columns of a table's header row.
MaxCols == 2
\* Most segments of one underlying table render.
MaxSegs == 3

\* The keys of TerminalTable.TABLE_TYPES.
TABLE_TYPES == {"plain", "porcelain", "single", "double", "github"}
\* The table_type arguments tried: the keys and a name that is none of them.
TableTypeArgs == TABLE_TYPES \cup {"fancy"}
\* The widths of the header cells tried, and the terminal's width.
ColWidths == {4}
TerminalWidths == {12}
Headers == UNION {[1..n -> ColWidths] : n \in 1..MaxCols}
\* drop_columns arguments: up to two different column numbers, in an order.
DropLists ==
    {<<>>} \cup {<<c>> : c \in 1..MaxCols}
           \cup {p \in (1..MaxCols) \X (1..MaxCols) : p[1] /= p[2]}

\* self.TABLE_TYPES[self.type] with a missing key.
LookupError == "KeyError"

\* _init_table adds one column per cell of table_data[0], in order.
init_table_columns(header) == [i \in 1..Len(header) |-> i]

\* TerminalTable(table_type, table_data, drop_columns=...) on a terminal.
TerminalTable(table_type, header, drop_columns, terminal_width) ==
    /\ tbl.phase = "none"
    /\ tbl' = IF table_type \in TABLE_TYPES
              THEN [phase |-> "built", type |-> table_type, header |-> header,
                    drop_columns |-> drop_columns,
                    terminal_width |-> terminal_width,
                    columns |-> init_table_columns(header), error |-> None]
              ELSE [phase |-> "failed", type |-> table_type, header |-> header,
                    drop_columns |-> drop_columns,
                    terminal_width |-> terminal_width,
                    columns |-> <<>>, error |-> LookupError]
    /\ UNCHANGED <<rendered, consoleVars, wrapVars>>

\* A segment's text is a sequence of characters.
NewLine == "\n"
Whitespace == {" ", NewLine}
SegTexts == {<<"x">>, <<" ">>, <<NewLine>>, <<" ", NewLine, "x">>, <<>>}
Renders == UNION {[1..n -> SegTexts] : n \in 0..MaxSegs}

\* The place of the first newline of a text, 0 when it has none.
FirstNewline(text) ==
    IF \E i \in 1..Len(text) : text[i] = NewLine
    THEN CHOOSE i \in 1..Len(text) :
            text[i] = NewLine /\ \A j \in 1..(i - 1) : text[j] /= NewLine
    ELSE 0

\* Segment.split_lines, the loop over one segment's text that has a newline.
RECURSIVE split_text(_, _, _)
split_text(text, line, lines) ==
    IF text = <<>> THEN [line |-> line, lines |-> lines]
    ELSE LET k == FirstNewline(text)
             head == IF k = 0 THEN text ELSE SubSeq(text, 1, k - 1)
             rest == IF k = 0 THEN <<>> ELSE SubSeq(text, k + 1, Len(text))
             line1 == IF head /= <<>> THEN Append(line, head) ELSE line
         IN  IF k = 0 THEN split_text(rest, line1, lines)
             ELSE split_text(rest, <<>>, Append(lines, line1))

RECURSIVE split_lines_from(_, _, _)
split_lines_from(segments, line, lines) ==
    IF segments = <<>>
    THEN IF line /= <<>> THEN Append(lines, line) ELSE lines
    ELSE IF FirstNewline(Head(segments)) /= 0
         THEN LET r == split_text(Head(segments), line, lines)
              IN  split_lines_from(Tail(segments), r.line, r.lines)
         ELSE split_lines_from(Tail(segments), Append(line, Head(segments)),
                               lines)

\* rich.segment.Segment.split_lines: the lines, each a list of segments.
split_lines(segments) == split_lines_from(segments, <<>>, <<>>)

\* seg.text.strip(): something is left of the text without its whitespace.
Stripped(text) == \E i \in 1..Len(text) : text[i] \notin Whitespace

\* all() where the code says any().
EverySegmentHasText(line) == \A i \in 1..Len(line) : Stripped(line[i])

\* any(seg.text.strip() for seg in line)
AnySegmentHasText(line) == \E i \in 1..Len(line) : Stripped(line[i])

\* yield from line; yield Segment.line()  for every line given
RECURSIVE EmitLines(_)
EmitLines(lines) ==
    IF lines = <<>> THEN <<>>
    ELSE Head(lines) \o <<(<<NewLine>>)>> \o EmitLines(Tail(lines))

\* TerminalTable.__rich_console__ over the table's own render.
rich_console_segments(type, segments) ==
    IF type \notin {"porcelain", "github"} THEN segments
    ELSE EmitLines(SelectSeq(split_lines(segments), AnySegmentHasText))

\* rich renders the built table: its segments pass through __rich_console__.
\* A run follows one table through its construction and one render.
Render(segments) ==
    /\ tbl.phase = "built"
    /\ rendered.phase = "none"
    /\ rendered' = [phase |-> "done", type |-> tbl.type,
                    segments |-> segments,
                    out |-> rich_console_segments(tbl.type, segments)]
    /\ UNCHANGED <<tbl, consoleVars, wrapVars>>

NextTable ==
    \/ \E table_type \in TableTypeArgs, header \in Headers,
          drop_columns \in DropLists, terminal_width \in TerminalWidths :
            TerminalTable(table_type, header, drop_columns, terminal_width)
    \/ \E segments \in Renders : Render(segments)

SpecTable == Init /\ [][NextTable]_vars

\* ------------------------------------------------------------ word_wrap

\* Longest text, and largest max_length, word_wrap is called with.
MaxTextLen == 4
MaxWidth == 5

Chars == {"a", " ", NewLine}
Texts == UNION {[1..n -> Chars] : n \in 0..MaxTextLen}
\* The max_length arguments tried: negative, zero and positive.
Widths == (-1)..MaxWidth

\* textwrap: replace_whitespace turns every whitespace character into a space.
munge_whitespace(text) ==
    [i \in 1..Len(text) |-> IF text[i] \in Whitespace THEN " " ELSE text[i]]

\* The length of the run of like characters (spaces, or not) a text starts with.
RunLength(text) ==
    CHOOSE k \in 1..Len(text) :
        /\ \A i \in 1..k : (text[i] = " ") = (text[1] = " ")
        /\ k = Len(text) \/ (text[k + 1] = " ") /= (text[1] = " ")

\* textwrap: the chunks of a text, words and runs of whitespace in turn.
RECURSIVE split_chunks(_)
split_chunks(text) ==
    IF text = <<>> THEN <<>>
    ELSE <<SubSeq(text, 1, RunLength(text))>>
         \o split_chunks(SubSeq(text, RunLength(text) + 1, Len(text)))

\* chunk.strip() == ''
Blank(chunk) == ~Stripped(chunk)

RECURSIVE Flatten(_)
Flatten(seqs) ==
    IF seqs = <<>> THEN <<>> ELSE Head(seqs) \o Flatten(Tail(seqs))

\* The chunks that fit the line: while cur_len + len(chunks[-1]) <= width.
RECURSIVE fill_line(_, _, _)
fill_line(chunks, cur_line, width) ==
    IF chunks /= <<>> /\ Len(Flatten(cur_line)) + Len(Head(chunks)) <= width
    THEN fill_line(Tail(chunks), Append(cur_line, Head(chunks)), width)
    ELSE [cur_line |-> cur_line, chunks |-> chunks]

\* textwrap _handle_long_word: the word is cut where the line is full.
handle_long_word(chunks, cur_line, width) ==
    LET space_left == IF width < 1 THEN 1
                      ELSE width - Len(Flatten(cur_line))
        chunk == Head(chunks)
    IN  [cur_line |-> Append(cur_line, SubSeq(chunk, 1, space_left)),
         chunks |-> <<SubSeq(chunk, space_left + 1, Len(chunk))>>
                    \o Tail(chunks)]

\* textwrap _wrap_chunks, one line per round, for a width above 0.
RECURSIVE wrap_chunks(_, _, _)
wrap_chunks(chunks, lines, width) ==
    IF chunks = <<>> THEN lines
    ELSE LET start == IF Blank(Head(chunks)) /\ lines /= <<>>
                      THEN Tail(chunks) ELSE chunks
             filled == fill_line(start, <<>>, width)
             broken == IF filled.chunks /= <<>>
                          /\ Len(Head(filled.chunks)) > width
                       THEN handle_long_word(filled.chunks, filled.cur_line,
                                             width)
                       ELSE filled
             cur_line == IF broken.cur_line /= <<>>
                            /\ Blank(Last(broken.cur_line))
                         THEN Front(broken.cur_line) ELSE broken.cur_line
         IN  wrap_chunks(broken.chunks,
                         IF cur_line /= <<>>
                         THEN Append(lines, Flatten(cur_line)) ELSE lines,
                         width)

\* textwrap.wrap(text, width): the wrapped lines, for a width above 0.
wrap(text, width) ==
    wrap_chunks(split_chunks(munge_whitespace(text)), <<>>, width)

\* '\n'.join(lines)
RECURSIVE join(_)
join(lines) ==
    IF lines = <<>> THEN <<>>
    ELSE IF Len(lines) = 1 THEN Head(lines)
    ELSE Head(lines) \o <<NewLine>> \o join(Tail(lines))

Returns(value) == [kind |-> "return", value |-> value]
\* textwrap raises ValueError("invalid width ... (must be > 0)").
Raises(error) == [kind |-> "raise", value |-> <<>>, error |-> error]

\* A slip in the width handed on to wrap.
word_wrap_off_by_one(text, max_length) ==
    IF Len(text) >= max_length
    THEN IF max_length + 1 <= 0 THEN Raises("ValueError")
         ELSE Returns(join(wrap(text, max_length + 1)))
    ELSE Returns(text)

word_wrap(text, max_length) ==
    IF Len(text) >= max_length
    THEN IF max_length <= 0 THEN Raises("ValueError")
         ELSE Returns(join(wrap(text, max_length)))
    ELSE Returns(text)

\* A run follows one call.
word_wrap_call(text, max_length) ==
    /\ ww.phase = "none"
    /\ ww' = [phase |-> "done", text |-> text, max_length |-> max_length,
              result |-> word_wrap(text, max_length)]
    /\ UNCHANGED <<consoleVars, tableVars>>

NextWrap == \E text \in Texts, max_length \in Widths :
                word_wrap_call(text, max_length)

SpecWrap == Init /\ [][NextWrap]_vars

\* ------------------------------------------------- claims on the console

\* The value get_console_output() returns in t follows t's scopes as a stack.
StackDiscipline ==
    \A t \in Threads :
        get_console_output(t) =
            IF scopes[t] = <<>> THEN None ELSE Last(scopes[t])

\* Thread t leaves its innermost scope normally in this step.
Leaves(t) == pc[t] = "body" /\ pc'[t] = "body" /\ frames'[t] = Front(frames[t])
             /\ frames[t] /= <<>>

\* C1: within one thread, for properly nested capture_console scopes of any
\* depth, leaving a scope makes get_console_output() return exactly the value
\* it returned right before that scope was entered: the enclosing scope's
\* stream, or None when there is no enclosing scope.
C1_LeaveRestoresPrior ==
    /\ []StackDiscipline
    /\ [][\A t \in Threads :
            Leaves(t) => get_console_output(t)' = Last(before[t])]_vars

\* A thread has left a scope nested in another one, whose stream is back.
C1_Witness ==
    \E t \in Threads :
        /\ justExited[t]
        /\ Len(frames[t]) = 1
        /\ get_console_output(t) \in Streams

\* C2: every console() call writes to the stream resolved for the calling
\* thread: its innermost active scope's stream, else the default destination,
\* whatever console() calls other threads interleave with it.
C2_WritesToResolved ==
    lastWrite.written => lastWrite.dest = lastWrite.resolved

\* C3: a scope entered or left in one thread never changes what
\* get_console_output() returns in another thread, and a thread that never
\* entered a scope gets None whatever scopes the other threads hold.
C3_ThreadIsolation ==
    /\ [](\A t \in Threads : ~everEntered[t] => get_console_output(t) = None)
    /\ [][\A u \in Threads : \A t \in Threads \ {u} :
            frames'[u] /= frames[u]
                => get_console_output(t)' = get_console_output(t)]_vars

\* One thread is inside a scope while another never entered one.
C3_Witness ==
    \E u \in Threads : \E t \in Threads \ {u} :
        /\ Len(frames[u]) = MaxDepth
        /\ get_console_output(u) \in Streams
        /\ ~everEntered[t]
        /\ get_console_output(t) = None

\* C4: when the wrapped block raises, the override is restored to what it was
\* before the scope was entered while the error goes on to the caller; after
\* the error has left several nested scopes the override is the value from
\* before the outermost of them.
C4_RestoredOnError ==
    /\ [](\A t \in Threads :
            (pc[t] = "raising" /\ unwound[t].n > 0)
                => get_console_output(t) = unwound[t].to)
    /\ [][\A t \in Threads :
            (pc[t] = "raising" /\ frames[t] /= <<>>
                               /\ frames'[t] = Front(frames[t]))
                => /\ get_console_output(t)' = Last(before[t])
                   /\ pc'[t] = "raising"]_vars

\* An error has left two nested scopes and is still on its way up.
C4_Witness ==
    \E t \in Threads :
        /\ pc[t] = "raising"
        /\ unwound[t].n >= 2
        /\ frames[t] = <<>>

\* C5: whenever no console() call is in progress in any thread,
\* rich_console.file is None: every call resets it on its way out, also when
\* the render raised.
C5_FileUnsetWhenIdle ==
    (\A t \in Threads : ~InCall(t)) => rich_console.file = None

\* No call is in progress, one with an override has written and another one
\* has ended with the render's error, inside a scope.
C5_Witness ==
    /\ \A t \in Threads : ~InCall(t)
    /\ lastWrite.written /\ lastWrite.dest \in Streams
    /\ \E t \in Threads :
        pc[t] = "raising" /\ unwound[t].n = 0 /\ frames[t] /= <<>>

\* C8: after disable_colors() every console() call that starts afterwards
\* renders with no_color on, in any thread, with or without an override, and
\* no operation of the module turns no_color off again.
C8_ColorsStayDisabled ==
    /\ disabled => rich_console.no_color
    /\ (lastWrite.written /\ lastWrite.afterDisable) => lastWrite.no_color

\* A call with an override that began after disable_colors() has written.
C8_Witness ==
    /\ lastWrite.written /\ lastWrite.afterDisable
    /\ lastWrite.resolved \in Streams

\* ---------------------------------------- claims on tables and word_wrap

\* The rendered width of a table with these columns: cells, padding, borders.
RECURSIVE TableWidth(_, _)
TableWidth(header, columns) ==
    IF columns = <<>> THEN 1
    ELSE header[Head(columns)] + 3 + TableWidth(header, Tail(columns))

\* The columns the documented dropping leaves: while the table is wider than
\* the terminal and has more than one column, the next listed column goes.
RECURSIVE DroppedTo(_, _, _, _)
DroppedTo(header, columns, drops, width) ==
    IF drops = <<>> \/ Len(columns) <= 1 \/ TableWidth(header, columns) <= width
    THEN columns
    ELSE LET Kept(c) == c /= Head(drops)
         IN  DroppedTo(header, SelectSeq(columns, Kept), Tail(drops), width)

\* C6: a TerminalTable built with a drop_columns list whose render is wider
\* than the terminal loses the listed columns in the listed order, until the
\* table fits or the minimum column count is reached; columns not listed stay.
C6_ColumnsDropped ==
    tbl.phase = "built"
        => tbl.columns = DroppedTo(tbl.header, init_table_columns(tbl.header),
                                   tbl.drop_columns, tbl.terminal_width)

\* C7: constructing a TerminalTable with a table_type that is no key of
\* TABLE_TYPES fails with TerminalTableError, and no table is built.
C7_UnknownTypeIsTableError ==
    (tbl.phase /= "none" /\ tbl.type \notin TABLE_TYPES)
        => (tbl.phase = "failed" /\ tbl.error = "TerminalTableError")

\* str.split('\n')
RECURSIVE SplitNewline(_)
SplitNewline(text) ==
    IF FirstNewline(text) = 0 THEN <<text>>
    ELSE <<SubSeq(text, 1, FirstNewline(text) - 1)>>
         \o SplitNewline(SubSeq(text, FirstNewline(text) + 1, Len(text)))

\* The lines of a render: the text of its segments, cut after every newline.
TextLines(segments) ==
    LET pieces == SplitNewline(Flatten(segments))
    IN  IF Last(pieces) = <<>> THEN Front(pieces) ELSE pieces

\* C9: the render of a 'porcelain' or 'github' table has no line that is
\* empty or whitespace only, and has every other line of the underlying
\* render, unchanged and in order; for the other types the underlying render
\* is emitted as it is, blank lines included.
C9_BlankLinesStripped ==
    rendered.phase = "done" =>
        IF rendered.type \in {"porcelain", "github"}
        THEN /\ \A i \in 1..Len(TextLines(rendered.out)) :
                    Stripped(TextLines(rendered.out)[i])
             /\ TextLines(rendered.out)
                    = SelectSeq(TextLines(rendered.segments), Stripped)
        ELSE rendered.out = rendered.segments

\* A porcelain render lost a blank line and kept two lines with text.
C9_Witness ==
    /\ rendered.phase = "done"
    /\ rendered.type = "porcelain"
    /\ Len(TextLines(rendered.out)) >= 2
    /\ Len(TextLines(rendered.segments)) > Len(TextLines(rendered.out))

\* No line of the text is longer than the width.
LinesFit(text, width) ==
    \A i \in 1..Len(SplitNewline(text)) : Len(SplitNewline(text)[i]) <= width

\* C10 as stated: for every text of length L and every width W, word_wrap
\* gives a result that is the text unchanged if L < W and has no line longer
\* than W if L >= W.
C10_AnyWidth ==
    ww.phase = "done" =>
        /\ ww.result.kind = "return"
        /\ Len(ww.text) < ww.max_length => ww.result.value = ww.text
        /\ Len(ww.text) >= ww.max_length
                => LinesFit(ww.result.value, ww.max_length)

\* C10 amended: for every width W >= 1 the result is the text unchanged if
\* L < W and has no line longer than W if L >= W; for W <= 0 the call raises
\* ValueError and gives no result.
C10_PositiveWidth ==
    ww.phase = "done" =>
        IF ww.max_length >= 1
        THEN /\ ww.result.kind = "return"
             /\ Len(ww.text) < ww.max_length => ww.result.value = ww.text
             /\ Len(ww.text) >= ww.max_length
                    => LinesFit(ww.result.value, ww.max_length)
        ELSE ww.result.kind = "raise" /\ ww.result.error = "ValueError"

\* A text at least as long as the width came back wrapped into several lines.
C10_Witness ==
    /\ ww.phase = "done"
    /\ ww.max_length >= 1
    /\ Len(ww.text) >= ww.max_length
    /\ ww.result.kind = "return"
    /\ Len(SplitNewline(ww.result.value)) >= 2
    /\ \E i \in 1..Len(ww.text) : ww.text[i] = " "

====
